---- MODULE Spec2Model ----
(***************************************************************************)
(* Model of the Zed extension in src/src/lib.rs: the unit struct           *)
(* CalibreEbookManagerExtension and its one trait method,                  *)
(* context_server_command, which maps a context-server identifier to the   *)
(* command line that launches the server, or to an error message.          *)
(*                                                                         *)
(* Rust Strings are TLA+ strings (compared by exact equality, joined with  *)
(* \o, cut with SubSeq).  A Vec is a sequence.  zed::Result<T> is a record *)
(* with the field ok and either value or error (the error is a String).    *)
(* A returned zed::Command is moved to the caller: it lives in one heap    *)
(* cell that the caller owns from then on.                                  *)
(***************************************************************************)
EXTENDS Naturals, Sequences

(***************************************************************************)
(* Bounds of the model.                                                    *)
(***************************************************************************)
\* call slots of the host: calls that are in flight or whose result is kept
MaxCalls == 2
\* processes the host spawns from descriptors
MaxSpawned == 1
\* length of the strings put before and after the recognized name
MaxPad == 1
\* length of the short identifiers enumerated exhaustively
MaxLen == 2

(***************************************************************************)
(* Values of the program.                                                  *)
(***************************************************************************)
\* struct CalibreEbookManagerExtension; a unit struct has exactly one value
CalibreEbookManagerExtension == "CalibreEbookManagerExtension"

\* zed::Command { command, args, env }
Command(command, args, env) == [command |-> command, args |-> args, env |-> env]

\* Result::Ok
Ok(v) == [ok |-> TRUE, value |-> v]

\* Result::Err
Err(e) == [ok |-> FALSE, error |-> e]

RECURSIVE trim_start(_)
\* str::trim_start for the ASCII space
trim_start(s) == IF s # "" /\ SubSeq(s, 1, 1) = " "
                 THEN trim_start(SubSeq(s, 2, Len(s)))
                 ELSE s

RECURSIVE to_ascii_lowercase(_)
\* str::to_ascii_lowercase for the letters of the recognized name
to_ascii_lowercase(s) ==
    IF s = "" THEN ""
    ELSE LET ch == SubSeq(s, 1, 1)
             lo == CASE ch = "A" -> "a" [] ch = "B" -> "b" [] ch = "C" -> "c"
                     [] ch = "E" -> "e" [] ch = "I" -> "i" [] ch = "L" -> "l"
                     [] ch = "M" -> "m" [] ch = "P" -> "p" [] ch = "R" -> "r"
                     [] OTHER -> ch
         IN lo \o to_ascii_lowercase(SubSeq(s, 2, Len(s)))

\* mutant: the identifier is written with {:?}, which quotes it
format_unknown_server_debug(x) == "Unknown server: \"" \o x \o "\""

\* mutant: the identifier is trimmed before it is written
format_unknown_server_trimmed(x) == "Unknown server: " \o trim_start(x)

\* format!("Unknown server: {}", x): Display of a string is the string itself
format_unknown_server(x) == "Unknown server: " \o x

\* mutant: the runner is given one more flag
context_server_command_flag(self, cid, project_) ==
    IF cid = "calibre-mcp"
    THEN Ok(Command("uv", <<"run", "--quiet", "calibre-mcp">>, <<>>))
    ELSE Err(format_unknown_server(cid))

\* mutant: the identifier is matched without regard to case
context_server_command_nocase(self, cid, project_) ==
    IF to_ascii_lowercase(cid) = "calibre-mcp"
    THEN Ok(Command("uv", <<"run", "calibre-mcp">>, <<>>))
    ELSE Err(format_unknown_server(cid))

\* mutant: the runner is told which project to run in
context_server_command_project(self, cid, project_) ==
    IF cid = "calibre-mcp"
    THEN Ok(Command("uv", <<"run", "--project", project_, "calibre-mcp">>, <<>>))
    ELSE Err(format_unknown_server(cid))

\* the body of context_server_command: self and _project are not read
context_server_command(self, cid, project_) ==
    IF cid = "calibre-mcp"
    THEN Ok(Command("uv", <<"run", "calibre-mcp">>, <<>>))
    ELSE Err(format_unknown_server(cid))

(***************************************************************************)
(* Inputs.                                                                 *)
(***************************************************************************)
\* the name under test, and the characters used to build its neighbours
Name == "calibre-mcp"
Alphabet == {"c", "C", " ", "-"}

RECURSIVE Strs(_)
\* all strings over Alphabet of length at most n
Strs(n) == IF n = 0 THEN {""}
           ELSE LET shorter == Strs(n - 1)
                IN shorter \cup {s \o ch : s \in shorter, ch \in Alphabet}

\* ASCII upper case of one character
UpperChar(ch) ==
    CASE ch = "a" -> "A" [] ch = "b" -> "B" [] ch = "c" -> "C"
      [] ch = "e" -> "E" [] ch = "i" -> "I" [] ch = "l" -> "L"
      [] ch = "m" -> "M" [] ch = "p" -> "P" [] ch = "r" -> "R"
      [] OTHER -> ch

RECURSIVE Upper(_)
\* ASCII upper case of a string
Upper(s) == IF s = "" THEN ""
            ELSE UpperChar(SubSeq(s, 1, 1)) \o Upper(SubSeq(s, 2, Len(s)))

\* s with its i-th character in upper case
UpperAt(s, i) ==
    SubSeq(s, 1, i - 1) \o UpperChar(SubSeq(s, i, i)) \o SubSeq(s, i + 1, Len(s))

Prefixes(s) == {SubSeq(s, 1, n) : n \in 0..Len(s)}
Suffixes(s) == {SubSeq(s, n, Len(s)) : n \in 1..(Len(s) + 1)}
CaseVariants(s) == {Upper(s)} \cup {UpperAt(s, i) : i \in 1..Len(s)}
Padded(s) == {a \o s \o b : a \in Strs(MaxPad), b \in Strs(MaxPad)}

\* identifiers given to the function when it is checked on its own
Identifiers ==
    Prefixes(Name) \cup Suffixes(Name) \cup CaseVariants(Name) \cup Padded(Name)
        \cup Strs(MaxLen)
        \cup {"unknown-server", "uv", "run", "calibre_mcp", "calibremcp",
              "Unknown server: ", "Unknown server: calibre-mcp"}

\* identifiers the host asks for in the runs with several calls
HostIdentifiers == {Name, "", "unknown-server"}

\* zed::Project handles; opaque to the extension
Projects == {"project-a", "project-b"}
NoProject == "no-project"

Calls == 1..MaxCalls
Addrs == 1..MaxCalls
NoAddr == 0
\* a heap cell that holds nothing, and the result of a call not yet returned
Free == [free |-> TRUE]
NoResult == [pending |-> TRUE]

\* what a caller does to a descriptor it owns
ExtraArg == "--verbose"
ExtraEnv == <<"CALIBRE_LIBRARY", "/books">>
ModKinds == {"arg", "env"}
NoMods == {}

\* a descriptor after its owner made the modifications in m: one more
\* argument, one more environment variable
Modified(d, m) ==
    Command(d.command,
            IF "arg" \in m THEN Append(d.args, ExtraArg) ELSE d.args,
            IF "env" \in m THEN Append(d.env, ExtraEnv) ELSE d.env)

VARIABLES
    ext,      \* the extension instance (the receiver, &mut self)
    pc,       \* per call slot: "idle", "called" or "returned"
    id,       \* per call slot: the ContextServerId argument
    project,  \* per call slot: the Project argument
    ret,      \* per call slot: the value the call returned, as returned
    held,     \* per call slot: heap address of the Command the caller owns
    heap,     \* heap cells holding Commands
    mods,     \* per call slot: what the caller did to its Command since
    last,     \* history: the call that returned last, and what was going on
              \* when it returned
    spawned   \* number of processes spawned so far

vars == <<ext, pc, id, project, ret, held, heap, mods, last, spawned>>

\* the least free heap cell: a fresh allocation
FreshAddr == CHOOSE a \in Addrs : heap[a] = Free /\ \A b \in Addrs : heap[b] = Free => a <= b

\* some caller holds a Command that it has modified
SomeModified ==
    \E d \in Calls : pc[d] = "returned" /\ held[d] # NoAddr /\ mods[d] # NoMods

\* a call other than c has been made and has not returned
OtherInFlight(c) == \E d \in Calls : d # c /\ pc[d] = "called"

NoCall == 0
NoLast == [call |-> NoCall, inflight |-> FALSE, modified |-> FALSE]

Init ==
    /\ ext = CalibreEbookManagerExtension
    /\ pc = [c \in Calls |-> "idle"]
    /\ id = [c \in Calls |-> ""]
    /\ project = [c \in Calls |-> NoProject]
    /\ ret = [c \in Calls |-> NoResult]
    /\ held = [c \in Calls |-> NoAddr]
    /\ heap = [a \in Addrs |-> Free]
    /\ mods = [c \in Calls |-> NoMods]
    /\ last = NoLast
    /\ spawned = 0

\* the host calls context_server_command(id, project) on the extension
Invoke(c, i, p) ==
    /\ pc[c] = "idle"
    /\ pc' = [pc EXCEPT ![c] = "called"]
    /\ id' = [id EXCEPT ![c] = i]
    /\ project' = [project EXCEPT ![c] = p]
    /\ UNCHANGED <<ext, ret, held, heap, mods, last, spawned>>

\* the return of a call with result r: an Ok value is moved to the caller,
\* into a heap cell of its own
Return(c, r) ==
    /\ ret' = [ret EXCEPT ![c] = r]
    /\ IF r.ok
       THEN /\ held' = [held EXCEPT ![c] = FreshAddr]
            /\ heap' = [heap EXCEPT ![FreshAddr] = r.value]
       ELSE UNCHANGED <<held, heap>>
    /\ pc' = [pc EXCEPT ![c] = "returned"]
    /\ last' = [call |-> c, inflight |-> OtherInFlight(c), modified |-> SomeModified]

\* mutant: the extension remembers that it has handed out the command and
\* refuses to hand it out again
Resolve_once(c) ==
    /\ pc[c] = "called"
    /\ LET r == IF ext = "started" /\ id[c] = "calibre-mcp"
                THEN Err("Server already started: " \o id[c])
                ELSE context_server_command(ext, id[c], project[c])
       IN /\ Return(c, r)
          /\ ext' = IF r.ok THEN "started" ELSE ext
    /\ UNCHANGED <<id, project, mods, spawned>>

\* mutant: the request is read from a buffer shared by the callers, which
\* holds the request written last (here: of the highest call in flight)
Resolve_shared_request(c) ==
    /\ pc[c] = "called"
    /\ LET d == CHOOSE d \in Calls :
                    pc[d] = "called" /\ \A e \in Calls : pc[e] = "called" => e <= d
       IN Return(c, context_server_command(ext, id[d], project[d]))
    /\ UNCHANGED <<ext, id, project, mods, spawned>>

\* mutant: the resolver starts the server itself
Resolve_spawns(c) ==
    /\ pc[c] = "called"
    /\ LET r == context_server_command(ext, id[c], project[c])
       IN /\ Return(c, r)
          /\ spawned' = IF r.ok THEN spawned + 1 ELSE spawned
    /\ UNCHANGED <<ext, id, project, mods>>

\* mutant: an unknown identifier is retried until it becomes known
Resolve_retries(c) ==
    /\ pc[c] = "called"
    /\ id[c] = "calibre-mcp"
    /\ Return(c, context_server_command(ext, id[c], project[c]))
    /\ UNCHANGED <<ext, id, project, mods, spawned>>

\* mutant: the command is built once and every caller is handed the same one
Resolve_static(c) ==
    /\ pc[c] = "called"
    /\ LET r == context_server_command(ext, id[c], project[c])
       IN /\ ret' = [ret EXCEPT ![c] = IF r.ok /\ heap[1] # Free THEN Ok(heap[1]) ELSE r]
          /\ IF r.ok
             THEN /\ held' = [held EXCEPT ![c] = 1]
                  /\ heap' = IF heap[1] = Free THEN [heap EXCEPT ![1] = r.value] ELSE heap
             ELSE UNCHANGED <<held, heap>>
    /\ pc' = [pc EXCEPT ![c] = "returned"]
    /\ last' = [call |-> c, inflight |-> OtherInFlight(c), modified |-> SomeModified]
    /\ UNCHANGED <<ext, id, project, mods, spawned>>

\* the call runs and returns.  The body reads only its own arguments, so it
\* is one step: no other call can observe or disturb a part of it
Resolve(c) ==
    /\ pc[c] = "called"
    /\ Return(c, context_server_command(ext, id[c], project[c]))
    /\ UNCHANGED <<ext, id, project, mods, spawned>>

\* the caller changes the Command it owns
Modify(c, kind) ==
    /\ pc[c] = "returned"
    /\ held[c] # NoAddr
    /\ kind \notin mods[c]
    /\ LET d == heap[held[c]]
       IN heap' = [heap EXCEPT ![held[c]] =
                     IF kind = "arg"
                     THEN Command(d.command, Append(d.args, ExtraArg), d.env)
                     ELSE Command(d.command, d.args, Append(d.env, ExtraEnv))]
    /\ mods' = [mods EXCEPT ![c] = @ \cup {kind}]
    /\ UNCHANGED <<ext, pc, id, project, ret, held, last, spawned>>

\* the caller is done with the result and drops it
Forget(c) ==
    /\ pc' = [pc EXCEPT ![c] = "idle"]
    /\ id' = [id EXCEPT ![c] = ""]
    /\ project' = [project EXCEPT ![c] = NoProject]
    /\ ret' = [ret EXCEPT ![c] = NoResult]
    /\ held' = [held EXCEPT ![c] = NoAddr]
    /\ heap' = IF held[c] = NoAddr THEN heap ELSE [heap EXCEPT ![held[c]] = Free]
    /\ mods' = [mods EXCEPT ![c] = NoMods]
    /\ UNCHANGED <<ext, last>>

\* the host spawns the process the Command describes; the Command is consumed
Spawn(c) ==
    /\ pc[c] = "returned"
    /\ held[c] # NoAddr
    /\ spawned < MaxSpawned
    /\ spawned' = spawned + 1
    /\ Forget(c)

\* the host drops a result without spawning (an error, or a Command not used)
Release(c) ==
    /\ pc[c] = "returned"
    /\ UNCHANGED spawned
    /\ Forget(c)

Next ==
    \/ \E c \in Calls, i \in HostIdentifiers, p \in Projects : Invoke(c, i, p)
    \/ \E c \in Calls : Resolve(c)
    \/ \E c \in Calls, kind \in ModKinds : Modify(c, kind)
    \/ \E c \in Calls : Spawn(c)
    \/ \E c \in Calls : Release(c)

Spec == Init /\ [][Next]_vars

(***************************************************************************)
(* The function on its own: one call with any identifier and project.      *)
(***************************************************************************)
InitFn ==
    /\ ext = CalibreEbookManagerExtension
    /\ \E i \in Identifiers, p \in Projects :
          /\ pc = [c \in Calls |-> IF c = 1 THEN "called" ELSE "idle"]
          /\ id = [c \in Calls |-> IF c = 1 THEN i ELSE ""]
          /\ project = [c \in Calls |-> IF c = 1 THEN p ELSE NoProject]
    /\ ret = [c \in Calls |-> NoResult]
    /\ held = [c \in Calls |-> NoAddr]
    /\ heap = [a \in Addrs |-> Free]
    /\ mods = [c \in Calls |-> NoMods]
    /\ last = NoLast
    /\ spawned = 0

NextFn == \E c \in Calls : Resolve(c)

SpecFn == InitFn /\ [][NextFn]_vars

(***************************************************************************)
(* Properties.                                                             *)
(***************************************************************************)
\* the launch descriptor the specification gives for the recognized name
ExpectedLaunch == [command |-> "uv", args |-> <<"run", "calibre-mcp">>, env |-> <<>>]
ErrorPrefix == "Unknown server: "

Returned(c) == pc[c] = "returned"

\* C1: a call whose identifier is exactly "calibre-mcp" returns, for every
\* project, success with command "uv", the two arguments "run" and
\* "calibre-mcp" in this order and nothing else, and an empty env.
C1_RecognizedLaunchesUvRun ==
    \A c \in Calls :
        Returned(c) /\ id[c] = "calibre-mcp" =>
            /\ ret[c].ok
            /\ ret[c].value.command = "uv"
            /\ Len(ret[c].value.args) = 2
            /\ ret[c].value.args[1] = "run"
            /\ ret[c].value.args[2] = "calibre-mcp"
            /\ ret[c].value.env = <<>>
            /\ held[c] # NoAddr
            /\ heap[held[c]] = ret[c].value

C1_Witness ==
    \E c \in Calls :
        Returned(c) /\ id[c] = "calibre-mcp" /\ project[c] = "project-b" /\ ret[c].ok

\* C2: a call whose identifier is not "calibre-mcp" (the empty string
\* included) returns failure, no launch descriptor, and the message is
\* "Unknown server: " followed by the identifier as given.
C2_UnknownFailsWithMessage ==
    \A c \in Calls :
        Returned(c) /\ id[c] # "calibre-mcp" =>
            /\ ~ret[c].ok
            /\ held[c] = NoAddr
            /\ \A a \in Addrs : heap[a] = Free
            /\ ret[c].error = "Unknown server: " \o id[c]
            /\ (id[c] = "unknown-server" => ret[c].error = "Unknown server: unknown-server")
            /\ (id[c] = "" => ret[c].error = "Unknown server: ")

C2_Witness ==
    \E c \in Calls : Returned(c) /\ id[c] = "" /\ ~ret[c].ok

\* identifiers close to the recognized one: other case, surrounding
\* characters, proper prefixes and suffixes
NearMisses ==
    (CaseVariants(Name) \cup Padded(Name) \cup Prefixes(Name) \cup Suffixes(Name))
        \ {"calibre-mcp"}

\* C3: a call succeeds if and only if its identifier equals "calibre-mcp";
\* a variant in another case, a padded one, a proper prefix and a longer
\* string that contains the name all fail.
C3_ExactMatchOnly ==
    \A c \in Calls :
        Returned(c) =>
            /\ ret[c].ok <=> id[c] = "calibre-mcp"
            /\ id[c] \in NearMisses => ~ret[c].ok

C3_Witness ==
    \E c \in Calls : Returned(c) /\ id[c] = "CALIBRE-MCP" /\ ~ret[c].ok

\* C4: any two calls on the same extension instance with the same
\* identifier returned the same result, whatever was called before them or
\* between them.
C4_SameIdentifierSameResult ==
    \A c, d \in Calls :
        Returned(c) /\ Returned(d) /\ id[c] = id[d] => ret[c] = ret[d]

C4_Witness ==
    \E c, d \in Calls :
        /\ c # d /\ Returned(c) /\ Returned(d)
        /\ id[c] = "calibre-mcp" /\ id[d] = "calibre-mcp"
        /\ project[c] # project[d]
        /\ spawned > 0
        /\ ret[c] = ret[d]

\* C5: the result of a call is the result for the same identifier with any
\* other project.
C5_ProjectIgnored ==
    \A c \in Calls :
        Returned(c) =>
            \A p \in Projects : ret[c] = context_server_command(ext, id[c], p)

C5_Witness ==
    \E c \in Calls :
        Returned(c) /\ id[c] = "calibre-mcp" /\ project[c] = "project-a"
            /\ \E p \in Projects : p # project[c]

\* C6: with several calls in flight at once, in every interleaving each
\* caller has the result its call gives when it runs alone on a new
\* extension, and an error comes with no descriptor.
C6_ConcurrentCallsIsolated ==
    \A c \in Calls :
        Returned(c) =>
            /\ ret[c] = context_server_command(CalibreEbookManagerExtension, id[c], project[c])
            /\ ret[c].ok <=> held[c] # NoAddr

C6_Witness ==
    \E c, d \in Calls :
        /\ Returned(c) /\ last.call = c /\ last.inflight
        /\ pc[d] = "called" /\ id[d] # id[c]

\* C7: the step in which a call returns, with success or with failure,
\* changes nothing but the result of that call: not the extension, not the
\* identifier, not the project, not the number of processes, not what other
\* callers hold.
ResolveStep(c) == pc[c] = "called" /\ pc'[c] = "returned"

C7_ResolveChangesOnlyItsResult ==
    [][\A c \in Calls :
          ResolveStep(c) =>
              /\ ext' = ext
              /\ id' = id
              /\ project' = project
              /\ spawned' = spawned
              /\ mods' = mods
              /\ \A d \in Calls \ {c} :
                    pc'[d] = pc[d] /\ ret'[d] = ret[d] /\ held'[d] = held[d]
              /\ \A a \in Addrs : heap[a] # Free => heap'[a] = heap[a]]_vars

C7_Witness ==
    \E c, d \in Calls :
        /\ Returned(c) /\ Returned(d) /\ last.call = d
        /\ ret[c].ok /\ ~ret[d].ok
        /\ ext = CalibreEbookManagerExtension /\ spawned = 0

\* the two outcomes of a call
IsLaunch(r) ==
    /\ DOMAIN r = {"ok", "value"}
    /\ r.ok
    /\ DOMAIN r.value = {"command", "args", "env"}

IsLookupError(r) ==
    /\ DOMAIN r = {"ok", "error"}
    /\ ~r.ok
    /\ SubSeq(r.error, 1, Len(ErrorPrefix)) = ErrorPrefix

\* C8: a call with any identifier can always take its step, which returns,
\* and what it returns is either a complete launch descriptor or the one
\* kind of error; an unknown identifier is such an error.
C8_AlwaysReturnsOneOfTwo ==
    \A c \in Calls :
        /\ pc[c] = "called" => ENABLED (Resolve(c) /\ pc'[c] = "returned")
        /\ Returned(c) =>
              /\ IsLaunch(ret[c]) \/ IsLookupError(ret[c])
              /\ id[c] # "calibre-mcp" => IsLookupError(ret[c])

C8_Witness ==
    \E c \in Calls : Returned(c) /\ id[c] = "unknown-server" /\ IsLookupError(ret[c])

\* C9: every successful call hands out a descriptor of its own: what each
\* caller holds is the expected descriptor with that caller's changes and
\* no others, no two callers hold the same one, and what a call returned
\* is the expected descriptor even when other callers changed theirs before.
C9_FreshDescriptorPerCall ==
    \A c \in Calls :
        Returned(c) /\ id[c] = "calibre-mcp" =>
            /\ ret[c] = Ok(ExpectedLaunch)
            /\ held[c] # NoAddr
            /\ heap[held[c]] = Modified(ExpectedLaunch, mods[c])
            /\ \A d \in Calls \ {c} : held[d] # held[c]

C9_Witness ==
    \E c, d \in Calls :
        /\ c # d /\ Returned(c) /\ Returned(d)
        /\ mods[c] = ModKinds
        /\ last.call = d /\ last.modified
        /\ id[d] = "calibre-mcp" /\ mods[d] = NoMods
        /\ heap[held[d]] = ExpectedLaunch

\* C10: the message of a failed call gives back the identifier: it is the
\* fixed prefix followed by exactly the identifier, and no other
\* unrecognized identifier has the same message.
C10_MessageDeterminesIdentifier ==
    \A c \in Calls :
        Returned(c) /\ id[c] # "calibre-mcp" =>
            LET m == ret[c].error
            IN /\ Len(m) = Len(ErrorPrefix) + Len(id[c])
               /\ SubSeq(m, 1, Len(ErrorPrefix)) = ErrorPrefix
               /\ SubSeq(m, Len(ErrorPrefix) + 1, Len(m)) = id[c]
               /\ \A b \in Identifiers \ {"calibre-mcp"} :
                     context_server_command(ext, b, project[c]).error = m <=> b = id[c]

C10_Witness ==
    \E c \in Calls :
        Returned(c) /\ id[c] = " " /\ ~ret[c].ok /\ Len(ret[c].error) = 17

====
